---- MODULE Spec2Model ----
(***************************************************************************)
(* Model of raylib-gif (src/raylib-gif/gif.go): the playback cursor of a   *)
(* GifImage (Step, NextFrame, Reset) and the per-frame disposal resolution *)
(* loop of LoadGifFromFile.                                                *)
(*                                                                         *)
(* The specifications share the variables:                                 *)
(*   Spec      the player: a constructed GifImage driven by Step,          *)
(*             NextFrame, Reset and the read accessors;                    *)
(*   SpecLoad  LoadGifFromFile from the decoded frames to the returned     *)
(*             GifImage;                                                   *)
(*   SpecDims  getGifDimensions over the frame rectangles;                 *)
(*   SpecReg   the registry of unloadables (src/unnamed/part_000);         *)
(*   SpecRun   Step called for ever with one dt, in rounded arithmetic.    *)
(*                                                                         *)
(* Time is float32 in the source; it is modelled on the integer grid of    *)
(* hundredths of a second (the unit of Timing), so dt*100 is an integer.   *)
(***************************************************************************)
EXTENDS Integers, Sequences, FiniteSets, TLC

\* ------------------------------------------------------------------ bounds
MaxFrames == 3      \* player: Frames ranges over 1..MaxFrames
MaxDelay == 2       \* player: Timing[i] ranges over -1..MaxDelay
MaxDt == 3          \* player: dt*100 ranges over 0..MaxDt
MaxTime == 5        \* player: cap on lastFrameTime (guards only)
MaxGifFrames == 3   \* loader: len(gif.Image) ranges over 1..MaxGifFrames
MaxRects == 2       \* dimensions: len(gif.Image) ranges over 1..MaxRects
MaxCoord == 2       \* dimensions: rectangle coordinates range over 0..MaxCoord

\* --------------------------------------------------------------- constants
FrameDisposalNone == 0
FrameDisposalDontDispose == 1
FrameDisposalRestoreBackground == 2
FrameDisposalRestorePrevious == 3

FrameDisposal ==
    { FrameDisposalNone, FrameDisposalDontDispose,
      FrameDisposalRestoreBackground, FrameDisposalRestorePrevious }

VARIABLES
    \* GifImage (player)
    Frames,             \* gif.Frames
    Timing,             \* gif.Timing, a function on 0..Frames-1
    currentFrame,       \* gif.currentFrame
    lastFrameTime,      \* gif.lastFrameTime
    Texture,            \* what gif.Texture holds: Image0 or a frame index
    \* the last player call (history, read by the properties only)
    lastOp,             \* "none" | "Step" | "NextFrame" | "Reset"
    oldFrame,           \* currentFrame before the last call
    oldTime,            \* lastFrameTime before the last call
    lastDt,             \* dt*100 of the last Step
    advanced,           \* number of NextFrame executions in the last call
    Width,              \* gif.Width
    Height,             \* gif.Height
    Disposal,           \* gif.Disposal
    pixels,             \* gif.pixels
    returned,           \* what the last accessor call returned (history)
    \* LoadGifFromFile
    loadPc,             \* "idle" | "loop" | "done"
    frames,             \* len(gif.Image)
    imgWidth,
    imgHeight,
    gifImage,           \* gif.Image[0..i-1] as read so far (and Image[0])
    i,                  \* loop index: frames 0..i-1 are processed
    disposals,          \* disposals[0..i-1]
    images,             \* images[0..i-1], the resolved buffers
    clumative,          \* the accumulation buffer
    previousNonDisposed,\* index into gif.Image
    oldClumative,       \* clumative before the last processed frame (history)
    \* getGifDimensions
    dimPc,              \* "idle" | "loop" | "done"
    gifRects,           \* img.Rect of gif.Image[0..n-1]
    dimK,               \* rectangles 0..dimK-1 are visited
    lowestX,
    lowestY,
    highestX,
    highestY,
    \* the registry of unloadables
    unloadables,        \* the slice: a sequence of handles and nils
    unloadingAll,       \* the flag, as left by the last call
    regOp,              \* "none" | "add" | "Unload" | "UnloadAll" (history)
    regHandle,          \* the handle of the last add or Unload (history)
    oldUnloadables,     \* unloadables before the last call (history)
    invoked,            \* the handles the last UnloadAll called Unload on
    unloadCount,        \* per handle: Unload calls since it was registered
    \* Step called for ever
    runDt,              \* the dt*100 of every call
    calls               \* parity of the number of calls made

playerVars ==
    << Frames, Timing, currentFrame, lastFrameTime, Texture,
       lastOp, oldFrame, oldTime, lastDt, advanced,
       Width, Height, Disposal, pixels, returned >>

loadVars ==
    << loadPc, frames, imgWidth, imgHeight, gifImage, i, disposals, images,
       clumative, previousNonDisposed, oldClumative >>

dimVars == << dimPc, gifRects, dimK, lowestX, lowestY, highestX, highestY >>

regVars ==
    << unloadables, unloadingAll, regOp, regHandle, oldUnloadables, invoked,
       unloadCount >>

runVars == << runDt, calls >>

vars == << playerVars, loadVars, dimVars, regVars, runVars >>

\* ------------------------------------------------------- decoded samples

\* What color.RGBA() returns for the samples of a decoded frame: 16-bit
\* channels << red, green, blue, alpha >>.  A decoded GIF frame holds opaque
\* palette colours and the fully transparent colour.
TransparentSample == << 0, 0, 0, 0 >>
RedSample == << 65535, 0, 0, 65535 >>
Samples == { TransparentSample, RedSample }

\* The frame sizes (imgWidth, imgHeight) the loader is run on: a row, a
\* column, and an animation whose frames have an empty rectangle
Dims == { << 3, 1 >>, << 1, 3 >>, << 0, 0 >> }

\* The values of gif.Delay the loader is run on
GifDelays == { 0, 1 }

Coords(w, h) == (0 .. (w - 1)) \X (0 .. (h - 1))

\* The decoded frames of a w x h animation: img.At(x, y) for every x, y
RawFrames(w, h) == [ Coords(w, h) -> Samples ]

\* img.At(x, y).RGBA()
At(img, x, y) == img[<< x, y >>]

\* r.NewColor(uint8(red), uint8(green), uint8(blue), uint8(alpha))
NewColor(c) == << c[1] % 256, c[2] % 256, c[3] % 256, c[4] % 256 >>

\* the zero r.Color of make([]r.Color, n)
ZeroColor == << 0, 0, 0, 0 >>

Alpha(c) == c[4]

\* ================================================================= player

Delays == (0 - 1) .. MaxDelay

\* gif.go:152-154, the clamp of NextFrame
ClampNone(t) == t

Clamp(t) == IF t < 0 THEN 0 ELSE t

\* gif.go:151
NextIndexNoWrap(cf) == cf + 1

\* gif.go:151 with the increment dropped
NextIndexStays(cf) == cf % Frames

NextIndex(cf) == (cf + 1) % Frames

\* gif.go:143, the test of Step
ShouldAdvanceStrict(diff) == diff > 0

ShouldAdvance(diff) == diff >= 0

\* gif.go:149-157 with the accumulated time cleared instead of reduced
NextFrameOutcomeNoCarry(cf, t) ==
    [ frame |-> NextIndex(cf),
      time |-> 0,
      texture |-> NextIndex(cf) ]

\* gif.go:149-157: the cursor after NextFrame runs from (cf, t)
NextFrameOutcome(cf, t) ==
    [ frame |-> NextIndex(cf),
      time |-> Clamp(t - Timing[cf]),
      texture |-> NextIndex(cf) ]

\* a two-iteration catch-up loop in place of the single test
StepOutcomeCatchUp(cf, t, tex) ==
    IF ShouldAdvance(t - Timing[cf])
    THEN LET o == NextFrameOutcome(cf, t) IN
         IF o.time - Timing[o.frame] >= 0
         THEN NextFrameOutcome(o.frame, o.time) @@ [ adv |-> 2 ]
         ELSE o @@ [ adv |-> 1 ]
    ELSE [ frame |-> cf, time |-> t, texture |-> tex, adv |-> 0 ]

\* gif.go:141-145: Step after the addition, from (cf, t)
StepOutcome(cf, t, tex) ==
    IF ShouldAdvance(t - Timing[cf])
    THEN NextFrameOutcome(cf, t) @@ [ adv |-> 1 ]
    ELSE [ frame |-> cf, time |-> t, texture |-> tex, adv |-> 0 ]

\* gif.go:124: the texture LoadTextureFromGo builds from the decoded
\* gif.Image[0] rather than uploads from a resolved buffer gif.pixels[k]
Image0 == 0 - 1

\* gif.go:123-134: no GifImage, and so no texture, exists before the return
NoTexture == 0 - 2

\* gif.go:156 with the upload writing through to the buffer of frame cf
PixelsAfterUploadMoved(px, cf) == [ px EXCEPT ![cf] = px[0] ]

\* gif.go:156: UpdateTexture(gif.pixels[gif.currentFrame]) reads the buffer
\* of frame cf and leaves the cache px as it is

PixelsAfterUpload(px, cf) == px

\* gif.go:160-163 with the second assignment dropped
ResetOutcomeKeepTime == [ frame |-> 0, time |-> lastFrameTime ]

ResetOutcome == [ frame |-> 0, time |-> 0 ]

InitPlayer ==
    /\ Frames \in 1 .. MaxFrames
    /\ Timing \in [ 0 .. (Frames - 1) -> Delays ]
    /\ currentFrame = 0
    /\ lastFrameTime = 0
    /\ Texture = Image0
    /\ lastOp = "none"
    /\ oldFrame = 0
    /\ oldTime = 0
    /\ lastDt = 0
    /\ advanced = 0
    /\ Width = Frames
    /\ Height = 1
    /\ Disposal = [ f \in 0 .. (Frames - 1) |-> FrameDisposalNone ]
    /\ pixels = [ f \in 0 .. (Frames - 1) |->
                   [ p \in 0 .. (Frames - 1) |->
                       IF p = f THEN NewColor(RedSample) ELSE ZeroColor ] ]
    /\ returned = "none"

Remember(op, dt) ==
    /\ lastOp' = op
    /\ oldFrame' = currentFrame
    /\ oldTime' = lastFrameTime
    /\ lastDt' = dt

\* gif.go:138-146
Step(dt) ==
    /\ lastFrameTime + dt <= MaxTime
    /\ LET o == StepOutcome(currentFrame, lastFrameTime + dt, Texture) IN
         /\ o.time <= MaxTime
         /\ currentFrame' = o.frame
         /\ lastFrameTime' = o.time
         /\ Texture' = o.texture
         /\ advanced' = o.adv
         /\ pixels' = IF o.adv > 0
                       THEN PixelsAfterUpload(pixels, o.frame)
                       ELSE pixels
    /\ Remember("Step", dt)
    /\ returned' = "none"
    /\ UNCHANGED << Frames, Timing, Width, Height, Disposal >>

\* gif.go:149-157
NextFrame ==
    /\ LET o == NextFrameOutcome(currentFrame, lastFrameTime) IN
         /\ o.time <= MaxTime
         /\ currentFrame' = o.frame
         /\ lastFrameTime' = o.time
         /\ Texture' = o.texture
         /\ pixels' = PixelsAfterUpload(pixels, o.frame)
    /\ advanced' = 1
    /\ Remember("NextFrame", 0)
    /\ returned' = "none"
    /\ UNCHANGED << Frames, Timing, Width, Height, Disposal >>

\* gif.go:160-163
Reset ==
    /\ currentFrame' = ResetOutcome.frame
    /\ lastFrameTime' = ResetOutcome.time
    /\ advanced' = 0
    /\ Remember("Reset", 0)
    /\ returned' = "none"
    /\ UNCHANGED << Frames, Timing, Texture, Width, Height, Disposal, pixels >>

StepAny == \E dt \in 0 .. MaxDt : Step(dt)

\* what an accessor leaves alone: every field of the GifImage
AccessorCall(op, value) ==
    /\ returned' = value
    /\ advanced' = 0
    /\ Remember(op, 0)
    /\ UNCHANGED << Frames, Timing, currentFrame, lastFrameTime, Texture,
                    Width, Height, Disposal, pixels >>

\* gif.go:171
CurrentFrame == AccessorCall("CurrentFrame", currentFrame)

\* gif.go:174
CurrentTiming == AccessorCall("CurrentTiming", Timing[currentFrame])

\* gif.go:177-179: r.NewRectangle(Width*frame, 0, Width, Height)
GetRectangle(frame) ==
    AccessorCall("GetRectangle", << Width * frame, 0, Width, Height >>)

GetAnyRectangle == \E frame \in 0 .. (Frames - 1) : GetRectangle(frame)

DimIdle ==
    /\ dimPc = "idle"
    /\ gifRects = << >>
    /\ dimK = 0
    /\ lowestX = 0
    /\ lowestY = 0
    /\ highestX = 0
    /\ highestY = 0

RegIdle ==
    /\ unloadables = << >>
    /\ unloadingAll = FALSE
    /\ regOp = "none"
    /\ regHandle = 0
    /\ oldUnloadables = << >>
    /\ invoked = << >>
    /\ unloadCount = << >>

RunIdle ==
    /\ runDt = 0
    /\ calls = 0

LoadIdle ==
    /\ loadPc = "idle"
    /\ frames = 0
    /\ imgWidth = 0
    /\ imgHeight = 0
    /\ gifImage = << >>
    /\ i = 0
    /\ disposals = << >>
    /\ images = << >>
    /\ clumative = << >>
    /\ previousNonDisposed = 0
    /\ oldClumative = << >>

Init == InitPlayer /\ LoadIdle /\ DimIdle /\ RegIdle /\ RunIdle

notPlayerVars == << loadVars, dimVars, regVars, runVars >>

Next ==
    \/ StepAny /\ UNCHANGED notPlayerVars
    \/ NextFrame /\ UNCHANGED notPlayerVars
    \/ Reset /\ UNCHANGED notPlayerVars
    \/ CurrentFrame /\ UNCHANGED notPlayerVars
    \/ CurrentTiming /\ UNCHANGED notPlayerVars
    \/ GetAnyRectangle /\ UNCHANGED notPlayerVars

Spec == Init /\ [][Next]_vars

\* ========================================================== LoadGifFromFile

\* gif.go:87, 94, 107, 114: the index of pixel (x, y) in a buffer
PixelIndex(x, y) == x + y * imgWidth

\* gif.go:84-116, the sample (red, green, blue, alpha) that is converted and
\* stored in pixels[x+y*imgWidth] for frame img of disposal d; clum is the
\* value of clumative[x+y*imgWidth] before the assignment, as an r.Color
\* (the DontDispose fallback copies it without conversion).
ResolvePixelBackgroundAlways(img, d, x, y, clum, d0, img0, prev) ==
    LET own == At(img, x, y) IN
    CASE d = FrameDisposalNone -> NewColor(own)
      [] d = FrameDisposalDontDispose ->
            IF Alpha(own) > 0 THEN NewColor(own) ELSE clum
      [] d = FrameDisposalRestoreBackground ->
            IF Alpha(own) = 0
            THEN NewColor(At(img0, x, y))
            ELSE NewColor(own)
      [] d = FrameDisposalRestorePrevious ->
            IF Alpha(own) = 0
            THEN NewColor(At(prev, x, y))
            ELSE NewColor(own)

ResolvePixelDontUsesOwn(img, d, x, y, clum, d0, img0, prev) ==
    LET own == At(img, x, y) IN
    CASE d = FrameDisposalNone -> NewColor(own)
      [] d = FrameDisposalDontDispose -> NewColor(own)
      [] d = FrameDisposalRestoreBackground ->
            IF d0 = FrameDisposalDontDispose /\ Alpha(own) = 0
            THEN NewColor(At(img0, x, y))
            ELSE NewColor(own)
      [] d = FrameDisposalRestorePrevious ->
            IF Alpha(own) = 0
            THEN NewColor(At(prev, x, y))
            ELSE NewColor(own)

ResolvePixelNoneKeepsOld(img, d, x, y, clum, d0, img0, prev) ==
    LET own == At(img, x, y) IN
    CASE d = FrameDisposalNone ->
            IF Alpha(own) > 0 THEN NewColor(own) ELSE clum
      [] d = FrameDisposalDontDispose ->
            IF Alpha(own) > 0 THEN NewColor(own) ELSE clum
      [] d = FrameDisposalRestoreBackground ->
            IF d0 = FrameDisposalDontDispose /\ Alpha(own) = 0
            THEN NewColor(At(img0, x, y))
            ELSE NewColor(own)
      [] d = FrameDisposalRestorePrevious ->
            IF Alpha(own) = 0
            THEN NewColor(At(prev, x, y))
            ELSE NewColor(own)

ResolvePixel(img, d, x, y, clum, d0, img0, prev) ==
    LET own == At(img, x, y) IN
    CASE d = FrameDisposalNone -> NewColor(own)
      [] d = FrameDisposalDontDispose ->
            IF Alpha(own) > 0 THEN NewColor(own) ELSE clum
      [] d = FrameDisposalRestoreBackground ->
            IF d0 = FrameDisposalDontDispose /\ Alpha(own) = 0
            THEN NewColor(At(img0, x, y))
            ELSE NewColor(own)
      [] d = FrameDisposalRestorePrevious ->
            IF Alpha(own) = 0
            THEN NewColor(At(prev, x, y))
            ELSE NewColor(own)

\* gif.go:88, 95, 108, 115: whether clumative[x+y*imgWidth] is assigned the
\* resolved pixel (every case but the transparent branch of DontDispose)
WritesClumative(d, own) ==
    \/ d = FrameDisposalNone
    \/ d = FrameDisposalDontDispose /\ Alpha(own) > 0
    \/ d = FrameDisposalRestoreBackground
    \/ d = FrameDisposalRestorePrevious

\* gif.go:89, 100: previousNonDisposed after frame k of disposal d; the
\* assignment sits inside the pixel loops of the None and DontDispose cases
NextPreviousNonDisposedNotPrevious(d, k, prev) ==
    IF d # FrameDisposalRestorePrevious /\ imgWidth * imgHeight > 0
    THEN k
    ELSE prev

NextPreviousNonDisposed(d, k, prev) ==
    IF d \in { FrameDisposalNone, FrameDisposalDontDispose }
       /\ imgWidth * imgHeight > 0
    THEN k
    ELSE prev

\* the coordinates (x, y) the loops of gif.go:78-79 visit for buffer index p
CoordOf(p) ==
    CHOOSE c \in Coords(imgWidth, imgHeight) : PixelIndex(c[1], c[2]) = p

\* gif.go:77-118: the buffer pixels after the loops over y and x.  Within a
\* frame previousNonDisposed is read only by RestorePrevious frames, which
\* do not assign it, and pixel (x, y) reads clumative at its own index only.
ResolveFrame(img, d, d0, img0, prev) ==
    [ p \in 0 .. (imgWidth * imgHeight - 1) |->
        LET c == CoordOf(p) IN
        ResolvePixel(img, d, c[1], c[2], clumative[p], d0, img0, prev) ]

\* gif.go:88, 95, 108, 115: clumative after the loops over y and x
ClumativeAfter(img, d, framePixels) ==
    [ p \in 0 .. (imgWidth * imgHeight - 1) |->
        LET c == CoordOf(p) IN
        IF WritesClumative(d, At(img, c[1], c[2]))
        THEN framePixels[p]
        ELSE clumative[p] ]

\* f extended by f[k] = v
Append0(f, k, v) == [ j \in 0 .. k |-> IF j = k THEN v ELSE f[j] ]

\* no GifImage is constructed
PlayerIdle ==
    /\ Frames = 0
    /\ Timing = << >>
    /\ currentFrame = 0
    /\ lastFrameTime = 0
    /\ Texture = NoTexture
    /\ lastOp = "none"
    /\ oldFrame = 0
    /\ oldTime = 0
    /\ lastDt = 0
    /\ advanced = 0
    /\ Width = 0
    /\ Height = 0
    /\ Disposal = << >>
    /\ pixels = << >>
    /\ returned = "none"

\* gif.go:58-64: gif.DecodeAll returned `frames` frames and
\* getGifDimensions gave imgWidth x imgHeight.  The loop reads gif.Image[k]
\* and gif.Disposal[k] no earlier than iteration k, except gif.Image[0]; the
\* decoded frames after the first are drawn when the loop reaches them.
InitLoad ==
    /\ loadPc = "decoded"
    /\ frames \in 1 .. MaxGifFrames
    /\ \E wh \in Dims :
         /\ imgWidth = wh[1]
         /\ imgHeight = wh[2]
         /\ gifImage \in [ { 0 } -> RawFrames(wh[1], wh[2]) ]
    /\ clumative = << >>
    /\ oldClumative = << >>
    /\ i = 0
    /\ disposals = << >>
    /\ images = << >>
    /\ previousNonDisposed = 0
    /\ PlayerIdle
    /\ DimIdle
    /\ RegIdle
    /\ RunIdle

\* gif.go:69: make([][]r.Color, frames, imgWidth*imgHeight) panics when the
\* length exceeds the capacity
MakePanics(len, cap) == len > cap

\* gif.go:65-72: the buffers are allocated and previousNonDisposed is
\* gif.Image[0]
Allocate ==
    /\ loadPc = "decoded"
    /\ IF MakePanics(frames, imgWidth * imgHeight)
       THEN /\ loadPc' = "panic"
            /\ UNCHANGED << clumative, oldClumative >>
       ELSE /\ loadPc' = "loop"
            /\ clumative' =
                   [ p \in 0 .. (imgWidth * imgHeight - 1) |-> ZeroColor ]
            /\ oldClumative' =
                   [ p \in 0 .. (imgWidth * imgHeight - 1) |-> ZeroColor ]
    /\ previousNonDisposed' = 0
    /\ UNCHANGED << frames, imgWidth, imgHeight, gifImage, i, disposals,
                    images >>

\* gif.go:74-121: one iteration of the loop over gif.Image, frame i being
\* img with disposal code d
ProcessFrame(img, d) ==
    /\ loadPc = "loop"
    /\ i < frames
    /\ LET imgs == Append0(gifImage, i, img)
           d0 == IF i = 0 THEN d ELSE disposals[0]
           framePixels == ResolveFrame(img, d, d0, imgs[0],
                                       imgs[previousNonDisposed])
       IN
         /\ gifImage' = imgs
         /\ disposals' = Append0(disposals, i, d)
         /\ images' = Append0(images, i, framePixels)
         /\ clumative' = ClumativeAfter(img, d, framePixels)
         /\ previousNonDisposed' =
                NextPreviousNonDisposed(d, i, previousNonDisposed)
    /\ oldClumative' = clumative
    /\ i' = i + 1
    /\ UNCHANGED << loadPc, frames, imgWidth, imgHeight >>

ProcessAnyFrame ==
    \E d \in FrameDisposal :
        \E img \in RawFrames(imgWidth, imgHeight) :
            /\ (i = 0 => img = gifImage[0])
            /\ ProcessFrame(img, d)

\* gif.go:123-134: the loop is over and the GifImage is returned; delay is
\* gif.Delay, which gif.DecodeAll returns with one entry per frame
LoadReturnOneFrameShort(delay) ==
    /\ loadPc = "loop"
    /\ i = frames
    /\ loadPc' = "done"
    /\ Texture' = Image0
    /\ pixels' = images
    /\ Width' = imgWidth
    /\ Height' = imgHeight
    /\ Frames' = frames - 1
    /\ Timing' = delay
    /\ Disposal' = disposals
    /\ currentFrame' = 0
    /\ lastFrameTime' = 0
    /\ UNCHANGED << lastOp, oldFrame, oldTime, lastDt, advanced, returned >>
    /\ UNCHANGED << frames, imgWidth, imgHeight, gifImage, i, disposals,
                    images, clumative, previousNonDisposed, oldClumative >>

LoadReturn(delay) ==
    /\ loadPc = "loop"
    /\ i = frames
    /\ loadPc' = "done"
    /\ Texture' = Image0
    /\ pixels' = images
    /\ Width' = imgWidth
    /\ Height' = imgHeight
    /\ Frames' = frames
    /\ Timing' = delay
    /\ Disposal' = disposals
    /\ currentFrame' = 0
    /\ lastFrameTime' = 0
    /\ UNCHANGED << lastOp, oldFrame, oldTime, lastDt, advanced, returned >>
    /\ UNCHANGED << frames, imgWidth, imgHeight, gifImage, i, disposals,
                    images, clumative, previousNonDisposed, oldClumative >>

LoadReturnAny ==
    \E delay \in [ 0 .. (frames - 1) -> GifDelays ] : LoadReturn(delay)

notLoadVars == << dimVars, regVars, runVars >>

NextLoad ==
    \/ Allocate /\ UNCHANGED << playerVars, notLoadVars >>
    \/ ProcessAnyFrame /\ UNCHANGED << playerVars, notLoadVars >>
    \/ LoadReturnAny /\ UNCHANGED notLoadVars

SpecLoad == InitLoad /\ [][NextLoad]_vars

\* ========================================================= getGifDimensions

\* img.Rect of a decoded frame: a non-empty rectangle inside the logical
\* screen, whose corner is the origin
Rects ==
    { r \in [ minX : 0 .. MaxCoord, minY : 0 .. MaxCoord,
              maxX : 0 .. MaxCoord, maxY : 0 .. MaxCoord ] :
        r.minX < r.maxX /\ r.minY < r.maxY }

\* gif.go:192-195: the four variables start at the zero value of int
InitDims ==
    /\ dimPc = "loop"
    /\ \E n \in 1 .. MaxRects : gifRects \in [ 0 .. (n - 1) -> Rects ]
    /\ dimK = 0
    /\ lowestX = 0
    /\ lowestY = 0
    /\ highestX = 0
    /\ highestY = 0
    /\ PlayerIdle
    /\ LoadIdle
    /\ RegIdle
    /\ RunIdle

\* gif.go:198-209
Lower(low, v) == IF v < low THEN v ELSE low

Higher(high, v) == IF v > high THEN v ELSE high

\* gif.go:197-210: one iteration of the loop over gif.Image
VisitRect ==
    /\ dimPc = "loop"
    /\ dimK < Cardinality(DOMAIN gifRects)
    /\ lowestX' = Lower(lowestX, gifRects[dimK].minX)
    /\ lowestY' = Lower(lowestY, gifRects[dimK].minY)
    /\ highestX' = Higher(highestX, gifRects[dimK].maxX)
    /\ highestY' = Higher(highestY, gifRects[dimK].maxY)
    /\ dimK' = dimK + 1
    /\ UNCHANGED << dimPc, gifRects >>
    /\ UNCHANGED loadVars

\* gif.go:212 and gif.go:64: the result is assigned to imgWidth, imgHeight
DimsReturn ==
    /\ dimPc = "loop"
    /\ dimK = Cardinality(DOMAIN gifRects)
    /\ dimPc' = "done"
    /\ imgWidth' = highestX - lowestX
    /\ imgHeight' = highestY - lowestY
    /\ UNCHANGED << gifRects, dimK, lowestX, lowestY, highestX, highestY >>
    /\ UNCHANGED << loadPc, frames, gifImage, i, disposals, images,
                    clumative, previousNonDisposed, oldClumative >>

NextDims ==
    \/ VisitRect /\ UNCHANGED << playerVars, regVars, runVars >>
    \/ DimsReturn /\ UNCHANGED << playerVars, regVars, runVars >>

SpecDims == InitDims /\ [][NextDims]_vars

\* ========================================================= player claims

\* The sum of the delays of the frames cf, cf+1, ..., cf+n-1 (cyclically)
RECURSIVE DelaySum(_, _)
DelaySum(cf, n) ==
    IF n = 0 THEN 0 ELSE Timing[cf] + DelaySum((cf + 1) % Frames, n - 1)

\* C1: one call of Step(dt), dt >= 0, leaves the frame index unchanged or
\* moves it to (old index + 1) mod Frames; it runs NextFrame at most once,
\* however many frame delays dt*100 spans.
C1_StepAtMostOneFrame ==
    lastOp = "Step" =>
        /\ currentFrame \in { oldFrame, (oldFrame + 1) % Frames }
        /\ advanced <= 1

\* C1 witness: three frames of positive delay, a Step whose dt*100 covers
\* the delays of two frames and more, and the index moved from 0 to 1 only.
C1_Witness ==
    /\ lastOp = "Step"
    /\ Frames >= 3
    /\ \A f \in 0 .. (Frames - 1) : Timing[f] = 1
    /\ oldFrame = 0
    /\ oldTime = 0
    /\ lastDt >= DelaySum(0, 2) + 1
    /\ currentFrame = 1

\* C2: the frame index stays within 0..Frames-1 under Step, NextFrame and
\* Reset, and an advance from the last frame sets it to 0, so
\* Timing[currentFrame] is always defined.
C2_IndexInRange ==
    /\ currentFrame \in 0 .. (Frames - 1)
    /\ currentFrame \in DOMAIN Timing
    /\ (advanced = 1 /\ oldFrame = Frames - 1) => currentFrame = 0

\* C2 witness: an advance from the last frame of an animation of several
\* frames wrapped to index 0.
C2_Witness ==
    /\ Frames >= 2
    /\ lastOp \in { "Step", "NextFrame" }
    /\ advanced = 1
    /\ oldFrame = Frames - 1
    /\ currentFrame = 0

\* C3: after Reset the playback state is exactly (index 0, time 0),
\* whatever Step and NextFrame calls came before.
C3_ResetRestoresZero ==
    lastOp = "Reset" => (currentFrame = 0 /\ lastFrameTime = 0)

\* C3 witness: Reset ran from a state with a non-zero index and non-zero
\* accumulated time.
C3_Witness ==
    /\ lastOp = "Reset"
    /\ oldFrame > 0
    /\ oldTime > 0
    /\ currentFrame = 0
    /\ lastFrameTime = 0

\* C4: when the delay of the current frame is zero or negative, Step(dt)
\* with dt >= 0 runs NextFrame exactly once: the index becomes
\* (old index + 1) mod Frames.
C4_NonPositiveDelayAdvancesOnce ==
    (lastOp = "Step" /\ Timing[oldFrame] <= 0) =>
        /\ advanced = 1
        /\ currentFrame = (oldFrame + 1) % Frames

\* C4 witness: Step(0) on a frame of delay 0 with no accumulated time, the
\* next frame also of non-positive delay, and the index moved by one.
C4_Witness ==
    /\ lastOp = "Step"
    /\ Frames >= 3
    /\ Timing[oldFrame] = 0
    /\ Timing[(oldFrame + 1) % Frames] <= 0
    /\ oldTime = 0
    /\ lastDt = 0
    /\ advanced = 1
    /\ currentFrame = (oldFrame + 1) % Frames

\* C5: lastFrameTime is never negative.
C5_TimeNonNegative == lastFrameTime >= 0

\* C5 witness: NextFrame was called directly with less accumulated time than
\* the frame's delay, and the undershoot was clamped to 0.
C5_Witness ==
    /\ lastOp = "NextFrame"
    /\ oldTime - Timing[oldFrame] < 0
    /\ lastFrameTime = 0

\* ========================================================= loader claims

Processed == 0 .. (i - 1)

\* frame k's own pixel at (x, y), converted as the loader stores it
OwnPixel(k, x, y) == NewColor(At(gifImage[k], x, y))

IsTransparent(k, x, y) == Alpha(At(gifImage[k], x, y)) = 0

\* the resolved pixel of frame k at (x, y)
Resolved(k, x, y) == images[k][x + y * imgWidth]

AllCoords == Coords(imgWidth, imgHeight)

Restoring == { FrameDisposalRestoreBackground, FrameDisposalRestorePrevious }

Keeping == { FrameDisposalNone, FrameDisposalDontDispose }

\* C6 (as claimed): after a RestoreBackground or RestorePrevious frame the
\* accumulation buffer equals its value before that frame at every pixel.
C6_RestoreLeavesAccumulation ==
    (i > 0 /\ disposals[i - 1] \in Restoring) => clumative = oldClumative

\* the most recent frame before k whose disposal is in ds, frame 0 if none
LastBefore(k, ds) ==
    LET js == { j \in 0 .. (k - 1) : disposals[j] \in ds } IN
    IF js = {} THEN 0 ELSE CHOOSE j \in js : \A m \in js : m <= j

\* frame k, of RestorePrevious disposal, resolves its transparent pixels to
\* raw frame src and keeps its own pixels elsewhere
RestoresFrom(k, src) ==
    \A c \in AllCoords :
        Resolved(k, c[1], c[2]) =
            IF IsTransparent(k, c[1], c[2])
            THEN OwnPixel(src, c[1], c[2])
            ELSE OwnPixel(k, c[1], c[2])

\* C7 (as claimed): a RestorePrevious frame resolves every transparent pixel
\* to the pixel of the most recent raw frame whose disposal is not
\* RestorePrevious (None, DoNotDispose or RestoreBackground).
C7_RestorePreviousUsesLastNotPrevious ==
    \A k \in Processed :
        ( /\ disposals[k] = FrameDisposalRestorePrevious
          /\ \E j \in 0 .. (k - 1) :
                 disposals[j] # FrameDisposalRestorePrevious )
        => RestoresFrom(k, LastBefore(k, FrameDisposal
                                \ { FrameDisposalRestorePrevious }))

\* C7 (amended): a RestorePrevious frame resolves every transparent pixel to
\* the pixel of the most recent earlier raw frame whose disposal is None or
\* DoNotDispose (RestoreBackground frames do not count), or of frame 0 when
\* there is none; non-transparent pixels keep the frame's own value.
C7_RestorePreviousUsesLastKept ==
    \A k \in Processed :
        disposals[k] = FrameDisposalRestorePrevious
        => RestoresFrom(k, LastBefore(k, Keeping))

\* C7 witness: a kept opaque frame, then a RestoreBackground frame that
\* differs from it, then a RestorePrevious frame with a transparent pixel,
\* resolved to the kept frame's pixel.
C7_Witness ==
    /\ i >= 3
    /\ disposals[0] = FrameDisposalNone
    /\ disposals[1] = FrameDisposalRestoreBackground
    /\ disposals[2] = FrameDisposalRestorePrevious
    /\ \E c \in AllCoords :
         /\ At(gifImage[0], c[1], c[2]) = RedSample
         /\ At(gifImage[1], c[1], c[2]) = TransparentSample
         /\ IsTransparent(2, c[1], c[2])
         /\ Resolved(2, c[1], c[2]) = NewColor(RedSample)

\* C8: a RestoreBackground frame keeps its own pixel where that is not
\* transparent; a transparent pixel resolves to frame 0's pixel when frame
\* 0's disposal is DoNotDispose and stays transparent otherwise.
C8_RestoreBackground ==
    \A k \in Processed :
        disposals[k] = FrameDisposalRestoreBackground =>
        \A c \in AllCoords :
            Resolved(k, c[1], c[2]) =
                IF ~IsTransparent(k, c[1], c[2])
                THEN OwnPixel(k, c[1], c[2])
                ELSE IF disposals[0] = FrameDisposalDontDispose
                     THEN OwnPixel(0, c[1], c[2])
                     ELSE ZeroColor

\* C8 witness: frame 0 opaque with disposal None, a later all-transparent
\* RestoreBackground frame, resolved fully transparent.
C8_Witness ==
    /\ i >= 2
    /\ disposals[0] = FrameDisposalNone
    /\ \A c \in AllCoords : At(gifImage[0], c[1], c[2]) = RedSample
    /\ \E k \in 1 .. (i - 1) :
         /\ disposals[k] = FrameDisposalRestoreBackground
         /\ \A c \in AllCoords :
              /\ IsTransparent(k, c[1], c[2])
              /\ Resolved(k, c[1], c[2]) = ZeroColor

\* C9: for the DoNotDispose frame just processed, a pixel of alpha > 0
\* resolves to the frame's own pixel and overwrites the accumulation buffer
\* there; a transparent pixel resolves to the accumulation buffer's value
\* from before the frame and leaves it unchanged.
C9_DontDispose ==
    (i > 0 /\ disposals[i - 1] = FrameDisposalDontDispose) =>
    \A c \in AllCoords :
        LET p == c[1] + c[2] * imgWidth IN
        IF ~IsTransparent(i - 1, c[1], c[2])
        THEN /\ images[i - 1][p] = OwnPixel(i - 1, c[1], c[2])
             /\ clumative[p] = OwnPixel(i - 1, c[1], c[2])
        ELSE /\ images[i - 1][p] = oldClumative[p]
             /\ clumative[p] = oldClumative[p]

\* C9 witness: a None frame, then a DoNotDispose frame with one transparent
\* pixel over an opaque accumulated pixel (inherited) and one opaque pixel
\* over a transparent accumulated pixel (its own).
C9_Witness ==
    /\ i = 2
    /\ disposals[0] = FrameDisposalNone
    /\ disposals[1] = FrameDisposalDontDispose
    /\ \E c \in AllCoords :
         /\ At(gifImage[0], c[1], c[2]) = RedSample
         /\ IsTransparent(1, c[1], c[2])
         /\ Resolved(1, c[1], c[2]) = NewColor(RedSample)
    /\ \E c \in AllCoords :
         /\ At(gifImage[0], c[1], c[2]) = TransparentSample
         /\ At(gifImage[1], c[1], c[2]) = RedSample
         /\ Resolved(1, c[1], c[2]) = NewColor(RedSample)
         /\ clumative[c[1] + c[2] * imgWidth] = NewColor(RedSample)

\* C10: a frame of disposal None resolves to its own pixels at every
\* position, transparent ones included, whatever came before, and right
\* after it the accumulation buffer equals that resolved buffer.
C10_NoneIsAuthoritative ==
    /\ \A k \in Processed :
         disposals[k] = FrameDisposalNone =>
         \A c \in AllCoords : Resolved(k, c[1], c[2]) = OwnPixel(k, c[1], c[2])
    /\ (i > 0 /\ disposals[i - 1] = FrameDisposalNone)
         => clumative = images[i - 1]

\* C10 witness: a None frame with a transparent pixel is processed over an
\* accumulation buffer that is opaque there, and the pixel resolves
\* transparent in the frame and in the accumulation buffer.
C10_Witness ==
    /\ i >= 2
    /\ disposals[i - 1] = FrameDisposalNone
    /\ \E c \in AllCoords :
         /\ oldClumative[c[1] + c[2] * imgWidth] = NewColor(RedSample)
         /\ IsTransparent(i - 1, c[1], c[2])
         /\ Resolved(i - 1, c[1], c[2]) = ZeroColor
         /\ clumative[c[1] + c[2] * imgWidth] = ZeroColor

\* C12 (as claimed): an animation of zero frames or of non-positive width
\* or height is answered with an error before any frame is composited; no
\* GifImage is returned and nothing else happens.
C12_InvalidAnimationIsAnError ==
    (frames < 1 \/ imgWidth < 1 \/ imgHeight < 1)
        => loadPc \in { "decoded", "error" }

\* C13: a returned GifImage of 1..MaxGifFrames frames has as many resolved
\* buffers, disposals and delays as frames, and every resolved buffer holds
\* Width*Height pixels.
C13_LoadedShape ==
    loadPc = "done" =>
        /\ Frames = frames
        /\ Frames \in 1 .. MaxGifFrames
        /\ DOMAIN pixels = 0 .. (Frames - 1)
        /\ DOMAIN Disposal = 0 .. (Frames - 1)
        /\ DOMAIN Timing = 0 .. (Frames - 1)
        /\ \A k \in DOMAIN pixels :
             /\ DOMAIN pixels[k] = 0 .. (Width * Height - 1)
             /\ Cardinality(DOMAIN pixels[k]) = Width * Height

\* C13 witness: an animation of several frames and several pixels is
\* returned.
C13_Witness ==
    /\ loadPc = "done"
    /\ Frames >= 3
    /\ Width * Height >= 3
    /\ Cardinality(DOMAIN pixels) = Frames
    /\ \E k \in DOMAIN pixels : \E p \in DOMAIN pixels[k] :
          pixels[k][p] # ZeroColor

\* ===================================================== dimension claims

MinOf(S) == CHOOSE v \in S : \A w \in S : v <= w

MaxOf(S) == CHOOSE v \in S : \A w \in S : w <= v

\* C11 (as claimed): the width is the largest Rect.Max.X minus the smallest
\* Rect.Min.X over all frames, and the height likewise with Y.
C11_DimensionsAreBoundingBox ==
    dimPc = "done" =>
        /\ imgWidth =
              MaxOf({ gifRects[k].maxX : k \in DOMAIN gifRects })
              - MinOf({ gifRects[k].minX : k \in DOMAIN gifRects })
        /\ imgHeight =
              MaxOf({ gifRects[k].maxY : k \in DOMAIN gifRects })
              - MinOf({ gifRects[k].minY : k \in DOMAIN gifRects })

\* ================================================ the unloadable registry

\* How many distinct unloadable objects the program creates
MaxHandles == 3

\* How often Unload is called on one object between two registrations
MaxUnloads == 2

\* part_000:10: make([]Unloadable, 100) starts the slice with 100 nil entries
InitialEntries == 100

\* The nil Unloadable
Nil == 0

Handles == 1 .. MaxHandles

Entries(us) == { us[k] : k \in 1 .. Len(us) }

\* part_000:31-32: the index of the first entry equal to h
FirstIndex(us, h) ==
    CHOOSE k \in 1 .. Len(us) :
        /\ us[k] = h
        /\ \A j \in 1 .. (k - 1) : us[j] # h

DropLast(us) == SubSeq(us, 1, Len(us) - 1)

\* part_000:28-41 with the last entry copied over the found one and the
\* slice left at its length
RemoveUnloadableKeepsLength(us, flag, h) ==
    IF flag \/ h \notin Entries(us)
    THEN us
    ELSE [ us EXCEPT ![FirstIndex(us, h)] = us[Len(us)] ]

\* part_000:28-41 with the truncation moved out of the search, so that it
\* happens whether or not the entry was found
RemoveUnloadableAlwaysTruncates(us, flag, h) ==
    IF flag \/ Len(us) = 0
    THEN us
    ELSE IF h \in Entries(us)
         THEN DropLast([ us EXCEPT ![FirstIndex(us, h)] = us[Len(us)] ])
         ELSE DropLast(us)

\* part_000:28-41: removeUnloadable(h) on the slice us while unloadingAll is
\* flag: the first entry equal to h is overwritten by the last one and the
\* slice loses its last position
RemoveUnloadable(us, flag, h) ==
    IF flag \/ h \notin Entries(us)
    THEN us
    ELSE DropLast([ us EXCEPT ![FirstIndex(us, h)] = us[Len(us)] ])

RECURSIVE SweepFrom(_, _, _)
\* part_000:54-59: the loop of UnloadAll from position k on; every non-nil
\* entry has Unload called, which calls removeUnloadable while unloadingAll
\* is true.  The result is the sequence of objects whose Unload was called.
SweepFrom(us, k, called) ==
    IF k > Len(us)
    THEN called
    ELSE IF us[k] # Nil
         THEN SweepFrom(RemoveUnloadable(us, TRUE, us[k]), k + 1,
                        Append(called, us[k]))
         ELSE SweepFrom(us, k + 1, called)

InitReg ==
    /\ unloadables = [ k \in 1 .. InitialEntries |-> Nil ]
    /\ unloadingAll = FALSE
    /\ regOp = "none"
    /\ regHandle = 0
    /\ oldUnloadables = << >>
    /\ invoked = << >>
    /\ unloadCount = [ h \in Handles |-> 0 ]
    /\ PlayerIdle
    /\ LoadIdle
    /\ DimIdle
    /\ RunIdle

\* part_000:20-23: a Load function registers the object it created; an
\* object is created once, so it is not in the registry yet
addUnloadable(h) ==
    /\ h \notin Entries(unloadables)
    /\ unloadables' = Append(unloadables, h)
    /\ unloadCount' = [ unloadCount EXCEPT ![h] = 0 ]
    /\ regOp' = "addUnloadable"
    /\ regHandle' = h
    /\ oldUnloadables' = unloadables
    /\ UNCHANGED << unloadingAll, invoked >>

\* part_000:26-41: the program calls Unload on the object h, and the Unload
\* function calls removeUnloadable(h)
Unload(h) ==
    /\ unloadCount[h] < MaxUnloads
    /\ unloadables' = RemoveUnloadable(unloadables, unloadingAll, h)
    /\ unloadCount' = [ unloadCount EXCEPT ![h] = @ + 1 ]
    /\ regOp' = "Unload"
    /\ regHandle' = h
    /\ oldUnloadables' = unloadables
    /\ UNCHANGED << unloadingAll, invoked >>

\* part_000:46-65: unloadingAll is true during the loop and false after it,
\* and the slice is cut to length 0
UnloadAll ==
    /\ invoked' = SweepFrom(unloadables, 1, << >>)
    /\ unloadables' = << >>
    /\ unloadingAll' = FALSE
    /\ regOp' = "UnloadAll"
    /\ regHandle' = 0
    /\ oldUnloadables' = unloadables
    /\ UNCHANGED unloadCount

AddAnyUnloadable == \E h \in Handles : addUnloadable(h)

UnloadAny == \E h \in Handles : Unload(h)

notRegVars == << playerVars, loadVars, dimVars, runVars >>

NextReg ==
    \/ AddAnyUnloadable /\ UNCHANGED notRegVars
    \/ UnloadAny /\ UNCHANGED notRegVars
    \/ UnloadAll /\ UNCHANGED notRegVars

SpecReg == InitReg /\ [][NextReg]_vars

\* ============================================= repeated Step with a fixed dt

\* gif.go:37, 140, 150: lastFrameTime is a float32 and the addition and the
\* subtraction round to float32.  A float32 has 24 significant bits; the
\* model keeps Precision of them, so that sums beyond the significand are
\* within reach.
Precision == 2

MaxRunFrames == 2

MaxRunDt == 2

RECURSIVE Pow2(_)
Pow2(n) == IF n = 0 THEN 1 ELSE 2 * Pow2(n - 1)

RECURSIVE Ulp(_, _)
\* the spacing of the floats around the magnitude x, searched from unit up
Ulp(x, unit) == IF x < Pow2(Precision) * unit THEN unit ELSE Ulp(x, 2 * unit)

\* the float nearest to the magnitude x, ties to the even significand
NearestEven(x) ==
    LET unit == Ulp(x, 1)
        q == x \div unit
        r == x % unit
    IN  IF 2 * r < unit THEN q * unit
        ELSE IF 2 * r > unit THEN (q + 1) * unit
        ELSE IF q % 2 = 0 THEN q * unit
        ELSE (q + 1) * unit

\* the float32 result of an operation whose exact result is x
Float32(x) == IF x < 0 THEN 0 - NearestEven(0 - x) ELSE NearestEven(x)

\* gif.go:140-145: Step from (cf, t) with dt*100 = dt, in float32
StepOutcome32(cf, t, dt, tex) ==
    LET o == StepOutcome(cf, Float32(t + dt), tex)
    IN  [ o EXCEPT !.time = Float32(o.time) ]

\* delays below, at and beyond the significand, exact in float32 as every
\* delay of a GIF is
RunDelays == { 0, 1, Pow2(Precision), Pow2(Precision + 1) }

InitRun ==
    /\ Frames \in 1 .. MaxRunFrames
    /\ Timing \in [ 0 .. (Frames - 1) -> RunDelays ]
    /\ currentFrame = 0
    /\ lastFrameTime = 0
    /\ Texture = Image0
    /\ lastOp = "none"
    /\ oldFrame = 0
    /\ oldTime = 0
    /\ lastDt = 0
    /\ advanced = 0
    /\ Width = Frames
    /\ Height = 1
    /\ Disposal = [ f \in 0 .. (Frames - 1) |-> FrameDisposalNone ]
    /\ pixels = [ f \in 0 .. (Frames - 1) |->
                   [ p \in 0 .. (Frames - 1) |->
                       IF p = f THEN NewColor(RedSample) ELSE ZeroColor ] ]
    /\ returned = "none"
    /\ runDt \in 1 .. MaxRunDt
    /\ calls = 0
    /\ LoadIdle
    /\ DimIdle
    /\ RegIdle

\* gif.go:138-146: the next Step(dt) of the run
StepRun ==
    /\ LET o == StepOutcome32(currentFrame, lastFrameTime, runDt, Texture) IN
         /\ currentFrame' = o.frame
         /\ lastFrameTime' = o.time
         /\ Texture' = o.texture
         /\ advanced' = o.adv
         /\ pixels' = IF o.adv > 0
                       THEN PixelsAfterUpload(pixels, o.frame)
                       ELSE pixels
    /\ Remember("Step", runDt)
    /\ returned' = "none"
    /\ calls' = 1 - calls
    /\ UNCHANGED << Frames, Timing, Width, Height, Disposal, runDt >>

NextRun == StepRun /\ UNCHANGED << loadVars, dimVars, regVars >>

\* Step is called again and again
SpecRun == InitRun /\ [][NextRun]_vars /\ WF_vars(NextRun)

\* ================================================== player claims, continued

Accessors == { "CurrentFrame", "CurrentTiming", "GetRectangle" }

\* C14: no player operation changes a resolved pixel buffer, Width, Height,
\* Frames, Timing or Disposal; the accessors CurrentFrame, CurrentTiming and
\* GetRectangle change the frame index, the accumulated time and the texture
\* neither.
C14_OnlyCursorChanges ==
    [][ /\ pixels' = pixels
        /\ Width' = Width
        /\ Height' = Height
        /\ Frames' = Frames
        /\ Timing' = Timing
        /\ Disposal' = Disposal
        /\ lastOp' \in Accessors =>
             /\ currentFrame' = currentFrame
             /\ lastFrameTime' = lastFrameTime
             /\ Texture' = Texture ]_vars

\* C14 witness: an accessor was called after the cursor had advanced to a
\* later frame and accumulated time, on an animation whose buffers differ.
C14_Witness ==
    /\ lastOp = "GetRectangle"
    /\ returned = << Width * (Frames - 1), 0, Width, Height >>
    /\ Frames >= 2
    /\ currentFrame > 0
    /\ lastFrameTime > 0
    /\ Texture = currentFrame
    /\ pixels[0] # pixels[currentFrame]

C19_TextureIsCurrentFrame ==
    Texture # Image0 => pixels[Texture] = pixels[currentFrame]

\* ================================================== registry claims

Times(seq, h) == Cardinality({ k \in 1 .. Len(seq) : seq[k] = h })

\* C15: one UnloadAll sweep calls Unload at most once per registered object,
\* and an object that was unloaded individually since it was registered is
\* not called by the sweep.
C15_SweepInvokesOnce ==
    regOp = "UnloadAll" =>
        \A h \in Handles :
            /\ Times(invoked, h) <= 1
            /\ Times(invoked, h) = 1 =>
                 /\ unloadCount[h] = 0
                 /\ h \in Entries(oldUnloadables)

\* C15 witness: a sweep that called one object and passed over another,
\* which had been registered and unloaded individually before.
C15_Witness ==
    /\ regOp = "UnloadAll"
    /\ \E h, g \in Handles :
         /\ Times(invoked, h) = 1
         /\ unloadCount[g] > 0
         /\ Times(invoked, g) = 0
    /\ Len(oldUnloadables) > 1

\* C16: removeUnloadable of an object that is not in the registry (removed
\* before or never registered) leaves the registry as it is, and removing
\* once more after any removal changes nothing.
C16_RemoveIsIdempotent ==
    regOp = "Unload" =>
        /\ regHandle \notin Entries(oldUnloadables) =>
             unloadables = oldUnloadables
        /\ regHandle \notin Entries(unloadables)
        /\ RemoveUnloadable(unloadables, unloadingAll, regHandle) = unloadables

\* C16 witness: the second Unload of an object in a row, with another object
\* still registered.
C16_Witness ==
    /\ regOp = "Unload"
    /\ unloadCount[regHandle] = 2
    /\ regHandle \notin Entries(oldUnloadables)
    /\ \E g \in Handles : g \in Entries(unloadables)
    /\ unloadables = oldUnloadables

\* ================================================== run claims

\* the last Step advanced onto frame f
LandedOn(f) == lastOp = "Step" /\ advanced = 1 /\ currentFrame = f

\* a Step moves the index to the next frame in cyclic order or not at all
CyclicStep ==
    lastOp = "Step" =>
        currentFrame = IF advanced = 1 THEN (oldFrame + 1) % Frames
                       ELSE oldFrame

\* the last Step added dt*100 > 0 and the float32 sum was the old value
Absorbed ==
    lastOp = "Step" /\ advanced = 0 /\ lastDt > 0 /\ lastFrameTime = oldTime

====
